---- MODULE Spec2Model ----
(***************************************************************************)
(* A model of the editor core of the TeaEditor repository:                 *)
(*   - Cmd::CommandManager and the three concrete commands (UndoRedo.cpp), *)
(*   - HierarchyPanel::updateAllPrefabInstance (Prefab.cpp),               *)
(*   - the sequencer controls of Editor (AnimatorController.cpp).          *)
(* Stacks are sequences whose LAST element is the top of the std::stack.   *)
(***************************************************************************)
EXTENDS Integers, Sequences, FiniteSets, TLC

(***************************************************************************)
(* Bounds and input sets                                                   *)
(***************************************************************************)
\* Number of commands submitted to the CommandManager in one behaviour.
MaxCmds == 2

\* Position / rotation / scale triples a caller hands to TransformEntityCommand.
TripleA == [pos |-> 1, rot |-> 2, scale |-> 3]
TripleB == [pos |-> 4, rot |-> 5, scale |-> 6]
Triples == {TripleA, TripleB}

\* Material identifiers (btEngine::UUID of material assets).
Mats == {"m0", "m1"}

\* The material array of the one mesh component the editor edits, at start-up.
InitMaterials == <<"m0", "m0">>

\* Indices a caller hands to ChangeMaterialInstanceCommand: the slots of the
\* array and one index past its end.
IndexInputs == 1..(Len(InitMaterials) + 1)

NoCmdField == "none"

\* What a ChangeMaterialInstanceCommand is built over: a property that can be
\* set and a sequential value, a value that is no sequential container, or a
\* property that can not be set on the component instance.
MaterialTargets ==
    {[settable |-> TRUE, sequential |-> TRUE],
     [settable |-> TRUE, sequential |-> FALSE],
     [settable |-> FALSE, sequential |-> TRUE]}

\* Largest frame number of the clip at start-up; the values typed into the
\* frame fields range from -1 to MaxFrame + 1.
MaxFrame == 2

\* Largest number of 1/30 s frame ticks one playback update consumes.
MaxTicks == 2

\* The entities of the scene that carry a BjornAnimator component.
Animators == {"e1", "e2"}

VARIABLES
    undoStack,   \* CommandManager::undoStack (UndoRedo.hpp:56)
    redoStack,   \* CommandManager::redoStack (UndoRedo.hpp:57)
    scene,       \* live entities of the scene: handle -> [uuid, hasTransform, transform]
    nextUUID,    \* next identifier createEntity() mints
    materials,   \* the material array property of the edited component
    nextCmd,     \* history: identity of the next Command instance constructed
    last,        \* history: latest CommandManager call and the Command methods it invoked
    phase,       \* history: per Command instance, its state and number of execute() calls
    chain,       \* history: an execute -> undo -> redo chain on one command, with snapshots
    registry,    \* entities of the scene the synchronizer scans: entity -> components
    files,       \* master prefab documents on disk: asset handle -> document
    typeOrder,   \* ComponentManager::getAllComponentTypes(): the registered types in order
    sync,        \* history: the latest updateAllPrefabInstance call and the registry before it
    hist,        \* history: the undo() and redo() calls since the latest executeCommand
    destroyed,   \* history: handles of entities destroyed outside the command history
    selected,    \* m_HierarchyPanel.getSelectedEntity(): the entity whose animator is edited
    isRecording, \* m_sequencer.isRecording (AnimatorController.hpp:169: one sequencer per Editor)
    isPlaying,   \* BjornAnimator::isPlaying of each entity's animator component
    currentFrame,\* Editor::m_currentFrame (AnimatorController.hpp:172)
    clip,        \* the AnimationClipAsset the animators play: startFrame, endFrame, isLooping
    editMode,    \* getEditorState() == EditorState::EditMode
    handler,     \* history: the sequencer handler that ran last and what the user did in it
    engine       \* the Engine and the calls it made on its subsystems, in order

cmdVars == <<undoStack, redoStack, scene, nextUUID, materials,
             nextCmd, last, phase, chain>>

prefabVars == <<registry, files, typeOrder, sync>>

histVars == <<hist, destroyed>>

seqVars == <<selected, isRecording, isPlaying, currentFrame, clip, editMode, handler>>

engineVars == <<engine>>

vars == <<undoStack, redoStack, scene, nextUUID, materials,
          nextCmd, last, phase, chain, registry, files, typeOrder, sync,
          hist, destroyed,
          selected, isRecording, isPlaying, currentFrame, clip, editMode, handler,
          engine>>

(***************************************************************************)
(* The scene manager and Entity, as the commands use them                  *)
(***************************************************************************)
\* The part of the program the commands read and write.
World == [scene |-> scene, nextUUID |-> nextUUID, materials |-> materials,
          held |-> {undoStack[i].entity : i \in DOMAIN undoStack} \cup
                   {redoStack[i].entity : i \in DOMAIN redoStack}]

\* The handle the registry hands out next. A handle is an index with a version:
\* a destroyed entity's handle is never handed out again, so a new handle differs
\* from every live handle and from every stale handle a command still holds.
NewHandle(w) ==
    CHOOSE h \in 1..(Cardinality(DOMAIN w.scene \cup w.held) + 1) :
        /\ h \notin DOMAIN w.scene \cup w.held
        /\ \A g \in 1..(h - 1) : g \in DOMAIN w.scene \cup w.held

\* Transform of an entity createEntity()/createEntityWithUUID() just made.
DefaultTransform == [pos |-> 0, rot |-> 0, scale |-> 1]

\* Entity::operator bool: the handle names a live entity of the registry.
EntityValid(w, h) == h \in DOMAIN w.scene

\* Entity::hasComponent<Transform>()
HasTransform(w, h) == w.scene[h].hasTransform

\* sceneManager::createEntity(): a new handle, a freshly minted UUID.
createEntity(w) ==
    [w EXCEPT !.scene = [h \in DOMAIN w.scene \cup {NewHandle(w)} |->
                            IF h = NewHandle(w)
                            THEN [uuid |-> w.nextUUID, hasTransform |-> TRUE,
                                  transform |-> DefaultTransform]
                            ELSE w.scene[h]],
              !.nextUUID = w.nextUUID + 1]

\* sceneManager::createEntityWithUUID(uuid): a new handle carrying the given UUID.
createEntityWithUUID(w, uuid) ==
    [w EXCEPT !.scene = [h \in DOMAIN w.scene \cup {NewHandle(w)} |->
                            IF h = NewHandle(w)
                            THEN [uuid |-> uuid, hasTransform |-> TRUE,
                                  transform |-> DefaultTransform]
                            ELSE w.scene[h]]]

\* sceneManager::destroyEntity(entity)
destroyEntity(w, h) ==
    [w EXCEPT !.scene = [x \in DOMAIN w.scene \ {h} |-> w.scene[x]]]

(***************************************************************************)
(* Concrete commands. Each method maps (command, world) to the command     *)
(* and the world after the call.                                           *)
(***************************************************************************)
Result(c, w) == [cmd |-> c, world |-> w]

\* CreateEntityCommand::execute
CreateEntityExecute(c, w) ==
    LET w2 == createEntity(w)
    IN  Result([c EXCEPT !.entity = NewHandle(w),
                         !.uuid = w2.scene[NewHandle(w)].uuid], w2)

CreateEntityUndoKeepsEntity(c, w) == Result(c, w)

\* CreateEntityCommand::undo
CreateEntityUndo(c, w) == Result(c, destroyEntity(w, c.entity))

RedoMintsFreshEntity(c, w) ==
    Result([c EXCEPT !.entity = NewHandle(w)], createEntity(w))

\* CreateEntityCommand::redo
CreateEntityRedo(c, w) ==
    Result([c EXCEPT !.entity = NewHandle(w)], createEntityWithUUID(w, c.uuid))

applyTransformPositionOnly(c, w, t) ==
    IF EntityValid(w, c.entity) /\ HasTransform(w, c.entity)
    THEN [w EXCEPT !.scene[c.entity].transform.pos = t.pos]
    ELSE w

\* TransformEntityCommand::applyTransform
applyTransform(c, w, t) ==
    IF EntityValid(w, c.entity) /\ HasTransform(w, c.entity)
    THEN [w EXCEPT !.scene[c.entity].transform =
                       [pos |-> t.pos, rot |-> t.rot, scale |-> t.scale]]
    ELSE w

\* TransformEntityCommand::execute, undo (after its mutant) and redo
TransformExecute(c, w) == Result(c, applyTransform(c, w, c.new))
TransformUndoAppliesNew(c, w) == Result(c, applyTransform(c, w, c.new))

TransformUndo(c, w) == Result(c, applyTransform(c, w, c.old))
TransformRedo(c, w) == Result(c, applyTransform(c, w, c.new))

\* ChangeMaterialInstanceCommand::applyValue: write val into slot m_index of the
\* stored container m_propValue, then set the whole property to that container.
applyValue(c, w, val) ==
    IF ~c.sequential
    THEN Result(c, w)                       \* seqView is not valid: return
    ELSE IF c.index \notin DOMAIN c.propValue
    THEN Result(c, w)                       \* seqView.set_value fails: return
    ELSE LET pv == [c.propValue EXCEPT ![c.index] = val]
         IN  IF ~c.propSettable
             THEN Result([c EXCEPT !.propValue = pv], w)   \* m_prop.set_value fails
             ELSE Result([c EXCEPT !.propValue = pv], [w EXCEPT !.materials = pv])

\* applyValue of command c returns through one of its three error branches
\* (UndoRedo.cpp:195-199, 201-205, 207-210).
MutationFails(c) ==
    /\ c.kind = "ChangeMaterialInstance"
    /\ (~c.sequential \/ c.index \notin DOMAIN c.propValue \/ ~c.propSettable)

\* ChangeMaterialInstanceCommand::execute / undo / redo
MaterialExecute(c, w) == applyValue(c, w, c.newValue)
MaterialUndo(c, w) == applyValue(c, w, c.oldValue)
MaterialRedo(c, w) == applyValue(c, w, c.newValue)

\* The entity handles a command method dereferences, or hands to the scene
\* manager, without testing before that the entity is live: every method of
\* TransformEntityCommand reads m_entity.getUUID() for its log line after
\* applyTransform returned (UndoRedo.cpp:114, 130, 146), and
\* CreateEntityCommand::undo passes m_entity to destroyEntity (line 82). What
\* the access to a dead entity does lies outside the commands; the calls that
\* return are the ones modelled.
UncheckedUse(method, c) ==
    CASE c.kind = "TransformEntity" -> {c.entity}
      [] c.kind = "CreateEntity" /\ method = "undo" -> {c.entity}
      [] OTHER -> {}

\* What a command method reports to its caller: execute(), undo() and redo()
\* are declared void (UndoRedo.hpp:72-74) and throw nothing.
Outcome(method, c, w) == "void"

\* Virtual dispatch of Command::execute / undo / redo
CmdExecute(c, w) ==
    CASE c.kind = "CreateEntity" -> CreateEntityExecute(c, w)
      [] c.kind = "TransformEntity" -> TransformExecute(c, w)
      [] c.kind = "ChangeMaterialInstance" -> MaterialExecute(c, w)

CmdUndo(c, w) ==
    CASE c.kind = "CreateEntity" -> CreateEntityUndo(c, w)
      [] c.kind = "TransformEntity" -> TransformUndo(c, w)
      [] c.kind = "ChangeMaterialInstance" -> MaterialUndo(c, w)

CmdRedo(c, w) ==
    CASE c.kind = "CreateEntity" -> CreateEntityRedo(c, w)
      [] c.kind = "TransformEntity" -> TransformRedo(c, w)
      [] c.kind = "ChangeMaterialInstance" -> MaterialRedo(c, w)

(***************************************************************************)
(* Command construction (the constructors only store their arguments)      *)
(***************************************************************************)
BlankCmd(id, kind) ==
    [id |-> id, kind |-> kind, entity |-> 0, uuid |-> 0,
     old |-> DefaultTransform, new |-> DefaultTransform,
     index |-> 0, propValue |-> <<>>, oldValue |-> NoCmdField, newValue |-> NoCmdField,
     sequential |-> TRUE, propSettable |-> TRUE]

NewCreateEntityCommand(id) == BlankCmd(id, "CreateEntity")

NewTransformEntityCommand(id, e, old, new) ==
    [BlankCmd(id, "TransformEntity") EXCEPT !.entity = e, !.old = old, !.new = new]

\* settable: m_prop can be set on m_compInst; sequential: propValue holds a
\* sequential container.
NewChangeMaterialInstanceCommand(id, settable, sequential, pv, i, old, new) ==
    [BlankCmd(id, "ChangeMaterialInstance") EXCEPT
        !.propSettable = settable, !.sequential = sequential,
        !.propValue = pv, !.index = i, !.oldValue = old, !.newValue = new]

(***************************************************************************)
(* What an observer of the scene sees: the entities by identifier with     *)
(* their transforms (handles are internal), and the material array.        *)
(***************************************************************************)
Observable(w) ==
    [entities |-> {w.scene[h] : h \in DOMAIN w.scene}, materials |-> w.materials]

(***************************************************************************)
(* CommandManager                                                          *)
(***************************************************************************)
Top(s) == s[Len(s)]
Pop(s) == SubSeq(s, 1, Len(s) - 1)

\* The identifiers of the commands in a stack, bottom to top.
Ids(st) == [i \in DOMAIN st |-> st[i].id]

\* The Command method each CommandManager operation invokes.
ExecuteCommandMethod == "execute"    \* UndoRedo.cpp:24  cmd->execute()
UndoMethod == "undo"                 \* UndoRedo.cpp:45  cmd->undo()
RedoReplaysExecute == "execute"
RedoMethod == "redo"                 \* UndoRedo.cpp:60  cmd->redo()

\* A virtual call cmd->method()
Invoke(method, c, w) ==
    CASE method = "execute" -> CmdExecute(c, w)
      [] method = "undo" -> CmdUndo(c, w)
      [] method = "redo" -> CmdRedo(c, w)

\* History: the state machine of a Command instance, driven by the calls it receives.
Track(ph, id, method, made) ==
    CASE method = "execute" ->
            [ph EXCEPT ![id] = [state |-> "Executed", executes |-> @.executes + 1,
                                made |-> IF @.executes = 0 THEN made ELSE @.made]]
      [] method = "undo" -> [ph EXCEPT ![id].state = "Undone"]
      [] method = "redo" -> [ph EXCEPT ![id].state = "Executed"]

SetWorld(w) ==
    /\ scene' = w.scene
    /\ nextUUID' = w.nextUUID
    /\ materials' = w.materials

RedoKeptOnExecute(rs) == rs

\* UndoRedo.cpp:30-33: the redo stack when executeCommand returns
RedoAfterExecute(rs) == <<>>

\* UndoRedo.cpp:27: undoStack.push(std::move(cmd))
UndoAfterExecute(us, c) == Append(us, c)

\* The state S a command has to be built from for undo() to lead back to S: the
\* values undo() writes are the ones the command stores, not the ones S holds.
BuiltFrom(c, w) ==
    CASE c.kind = "CreateEntity" -> TRUE
      [] c.kind = "TransformEntity" ->
            (EntityValid(w, c.entity) /\ HasTransform(w, c.entity))
                => w.scene[c.entity].transform = c.old
      [] c.kind = "ChangeMaterialInstance" ->
            c.index \in DOMAIN c.propValue
                => [c.propValue EXCEPT ![c.index] = c.oldValue] = w.materials

\* The UUID of the entity a command's execute() created (0: it created none).
Made(c, w) == IF c.kind = "CreateEntity" /\ EntityValid(w, c.entity)
              THEN w.scene[c.entity].uuid ELSE 0

\* History of the calls since the latest executeCommand. It is kept while the
\* calls are k undo() that each reach a command followed by at most k redo(),
\* and dropped (ok = FALSE) by any other call. base: the undo stack right after
\* the executeCommand; snap: the scene right after it; onCreated: the command
\* submitted was a TransformEntityCommand on the entity of the
\* CreateEntityCommand submitted just before it.
NoHist(on) == [on |-> on, ok |-> FALSE, undos |-> 0, redos |-> 0, base |-> <<>>,
               snap |-> [entities |-> {}, materials |-> <<>>], onCreated |-> FALSE]

HistExecute(h, cmd, us, w, r) ==
    IF ~h.on THEN h
    ELSE [on |-> TRUE, ok |-> TRUE, undos |-> 0, redos |-> 0,
          base |-> Append(Ids(us), cmd.id), snap |-> Observable(r.world),
          onCreated |-> /\ cmd.kind = "TransformEntity"
                        /\ us # <<>>
                        /\ Top(us).kind = "CreateEntity"
                        /\ h.ok /\ h.undos = 0
                        /\ Top(us).entity = cmd.entity
                        /\ EntityValid(w, cmd.entity)]

HistUndo(h, reached) ==
    IF ~h.on THEN h
    ELSE IF h.ok /\ reached /\ h.redos = 0
         THEN [h EXCEPT !.undos = @ + 1]
         ELSE NoHist(TRUE)

HistRedo(h, reached) ==
    IF ~h.on THEN h
    ELSE IF h.ok /\ reached /\ h.redos < h.undos
         THEN [h EXCEPT !.redos = @ + 1]
         ELSE NoHist(TRUE)

\* The handles that stay recorded as destroyed outside the command history:
\* those some command still holds and that name no live entity.
StillDestroyed(d, us, rs, w) ==
    {h \in d : /\ h \notin DOMAIN w.scene
               /\ \/ \E i \in DOMAIN us : us[i].entity = h
                  \/ \E i \in DOMAIN rs : rs[i].entity = h}

\* CommandManager::executeCommand(cmd)
executeCommand(cmd) ==
    /\ nextCmd <= MaxCmds
    /\ LET r == Invoke(ExecuteCommandMethod, cmd, World)
       IN  /\ SetWorld(r.world)
           /\ undoStack' = UndoAfterExecute(undoStack, r.cmd)
           /\ redoStack' = RedoAfterExecute(redoStack)
           /\ last' = [op |-> "executeCommand", cmd |-> cmd.id,
                       calls |-> <<<<cmd.id, ExecuteCommandMethod>>>>]
           /\ phase' = Track(phase, cmd.id, ExecuteCommandMethod, Made(r.cmd, r.world))
           /\ chain' = [stage |-> 1, cmd |-> cmd.id, builtFrom |-> BuiltFrom(cmd, World),
                        pre |-> Observable(World), post |-> Observable(r.world)]
           /\ hist' = HistExecute(hist, cmd, undoStack, World, r)
           /\ destroyed' = StillDestroyed(destroyed, undoStack', redoStack', r.world)
    /\ nextCmd' = nextCmd + 1
    /\ UNCHANGED <<prefabVars, seqVars, engineVars>>

SubmitCreateEntity == executeCommand(NewCreateEntityCommand(nextCmd))

SubmitTransformEntity ==
    \E e \in {0} \cup DOMAIN scene \cup World.held, old \in Triples, new \in Triples :
        executeCommand(NewTransformEntityCommand(nextCmd, e, old, new))

\* The commands submitted: every container, index and value pair over a sound
\* target; over a target whose mutation fails, a change of slot 1 of the
\* current array.
MaterialInput(target, pv, i, old, new) ==
    \/ target.settable /\ target.sequential
    \/ pv = materials /\ i = 1 /\ old # new

SubmitChangeMaterialInstance ==
    \E target \in MaterialTargets, pv \in {materials, InitMaterials}, i \in IndexInputs,
       old \in Mats, new \in Mats :
        /\ MaterialInput(target, pv, i, old, new)
        /\ executeCommand(NewChangeMaterialInstanceCommand(nextCmd, target.settable,
                                                        target.sequential, pv, i, old, new))

NoChain == [stage |-> 0, cmd |-> 0, builtFrom |-> TRUE,
            pre |-> Observable(World), post |-> Observable(World)]

UndoTakesBottom(us) == us[1]

\* UndoRedo.cpp:41: the command undo() takes
UndoTarget(us) == Top(us)

UndoLeavesTop(us) == Tail(us)

UndoKeepsTop(us) == us

\* UndoRedo.cpp:42: undoStack.pop()
UndoAfterUndo(us) == Pop(us)

RedoClearedOnEmptyUndo(rs) == <<>>

\* UndoRedo.cpp:38: the redo stack when undo() returns early
RedoAfterEmptyUndo(rs) == rs

\* CommandManager::undo()
undo ==
    \/ /\ undoStack = <<>>
       /\ redoStack' = RedoAfterEmptyUndo(redoStack)
       /\ last' = [op |-> "undo", cmd |-> 0, calls |-> <<>>]
       /\ chain' = NoChain
       /\ hist' = HistUndo(hist, FALSE)
       /\ UNCHANGED <<undoStack, scene, nextUUID, materials, nextCmd, phase, destroyed>>
       /\ UNCHANGED <<prefabVars, seqVars, engineVars>>
    \/ /\ undoStack # <<>>
       /\ LET cmd == UndoTarget(undoStack)
              r == Invoke(UndoMethod, cmd, World)
          IN  /\ SetWorld(r.world)
              /\ undoStack' = UndoAfterUndo(undoStack)
              /\ redoStack' = Append(redoStack, r.cmd)
              /\ last' = [op |-> "undo", cmd |-> cmd.id,
                          calls |-> <<<<cmd.id, UndoMethod>>>>]
              /\ phase' = Track(phase, cmd.id, UndoMethod, 0)
              /\ chain' = IF chain.stage = 1 /\ chain.cmd = cmd.id
                          THEN [chain EXCEPT !.stage = 2]
                          ELSE NoChain
              /\ hist' = HistUndo(hist, TRUE)
              /\ destroyed' = StillDestroyed(destroyed, undoStack', redoStack', r.world)
       /\ UNCHANGED nextCmd
       /\ UNCHANGED <<prefabVars, seqVars, engineVars>>

RedoPushedBelow(us, c) == <<c>> \o us

UndoDropsFailedRedo(us, c) == IF MutationFails(c) THEN us ELSE Append(us, c)

\* UndoRedo.cpp:63: undoStack.push(std::move(cmd))
UndoAfterRedo(us, c) == Append(us, c)

RedoTakesBottom(rs) == rs[1]

\* UndoRedo.cpp:56: the command redo() takes
RedoTarget(rs) == Top(rs)

\* UndoRedo.cpp:57: redoStack.pop()
RedoAfterRedo(rs) == Pop(rs)

\* CommandManager::redo()
redo ==
    \/ /\ redoStack = <<>>
       /\ last' = [op |-> "redo", cmd |-> 0, calls |-> <<>>]
       /\ chain' = NoChain
       /\ hist' = HistRedo(hist, FALSE)
       /\ UNCHANGED <<undoStack, redoStack, scene, nextUUID, materials, nextCmd, phase,
                      destroyed>>
       /\ UNCHANGED <<prefabVars, seqVars, engineVars>>
    \/ /\ redoStack # <<>>
       /\ LET cmd == RedoTarget(redoStack)
              r == Invoke(RedoMethod, cmd, World)
          IN  /\ SetWorld(r.world)
              /\ redoStack' = RedoAfterRedo(redoStack)
              /\ undoStack' = UndoAfterRedo(undoStack, r.cmd)
              /\ last' = [op |-> "redo", cmd |-> cmd.id,
                          calls |-> <<<<cmd.id, RedoMethod>>>>]
              /\ phase' = Track(phase, cmd.id, RedoMethod, Made(r.cmd, r.world))
              /\ chain' = IF chain.stage = 2 /\ chain.cmd = cmd.id
                          THEN [chain EXCEPT !.stage = 3]
                          ELSE NoChain
              /\ hist' = HistRedo(hist, TRUE)
              /\ destroyed' = StillDestroyed(destroyed, undoStack', redoStack', r.world)
       /\ UNCHANGED nextCmd
       /\ UNCHANGED <<prefabVars, seqVars, engineVars>>

\* An entity is destroyed through the scene manager by something else than a
\* command of the history (the user deletes it in the hierarchy panel). The
\* entities deleted are those a command of the history refers to.
DestroyByOtherMeans ==
    \E h \in DOMAIN scene \cap World.held :
        /\ scene' = destroyEntity(World, h).scene
        /\ destroyed' = StillDestroyed(destroyed \cup {h}, undoStack, redoStack,
                                       destroyEntity(World, h))
        /\ chain' = NoChain
        /\ hist' = NoHist(hist.on)
        /\ UNCHANGED <<undoStack, redoStack, nextUUID, materials, nextCmd, last, phase>>
        /\ UNCHANGED <<prefabVars, seqVars, engineVars>>

(***************************************************************************)
(* Prefab synchronizer: HierarchyPanel::updateAllPrefabInstance            *)
(***************************************************************************)
\* Asset handles of master prefabs.
PrefabHandles == {"prefabA", "prefabB"}

\* The registered component types. Prefab.cpp names "Scene ID", "Child",
\* "Parent", "UUIDComponent" and "OverrideComponent" among them (lines 84, 105,
\* 113); Transform and Tag stand for every other type.
ComponentTypes ==
    {"Scene ID", "UUIDComponent", "OverrideComponent", "Transform", "Tag",
     "Parent", "Child"}

\* Orders in which getAllComponentTypes() may list them: the order is a fact of
\* the registration, which the synchronizer does not fix.
TypeOrders ==
    {<<"Scene ID", "UUIDComponent", "OverrideComponent", "Transform", "Tag",
       "Parent", "Child">>,
     <<"Child", "Parent", "Tag", "Transform", "Scene ID", "UUIDComponent",
       "OverrideComponent">>}

\* componentType.get_properties(): the reflected properties of a type, in
\* order. OverrideComponent's are the fields the synchronizer reads
\* (Prefab.cpp:69, 92-94, 144-147).
Properties(T) ==
    CASE T = "Scene ID" -> <<"Scene ID">>
      [] T = "UUIDComponent" -> <<"uuid">>
      [] T = "OverrideComponent" -> <<"masterPrefabHandle", "properties", "components">>
      [] T = "Transform" -> <<"position", "Scene ID">>
      [] T = "Tag" -> <<"name">>
      [] T = "Parent" -> <<"Parent">>
      [] T = "Child" -> <<"children">>

PropertyNames(T) == {Properties(T)[i] : i \in DOMAIN Properties(T)}

\* State of a default-constructed component.
DefaultProps(T) ==
    IF T = "OverrideComponent"
    THEN [masterPrefabHandle |-> "none", properties |-> {}, components |-> {}]
    ELSE [p \in PropertyNames(T) |-> 0]

\* std::string propertyPath = typeName + "/" + propName  (Prefab.cpp:139)
Path(T, p) == T \o "/" \o p

\* A component an entity does not have.
Absent(T) == [present |-> FALSE, props |-> DefaultProps(T)]

\* Entity::hasComponent(typeName)
hasComponent(ent, T) == ent[T].present

\* Entity::addComponent(typeName): default-constructed state
addComponent(ent, T) == [ent EXCEPT ![T] = [present |-> TRUE, props |-> DefaultProps(T)]]

\* Entity::removeComponent(typeName)
removeComponent(ent, T) == [ent EXCEPT ![T] = Absent(T)]

\* Entity::getComponent(typeName).is_valid()
ComponentValid(ent, T) == ent[T].present

\* The OverrideComponent of a prefab instance (Prefab.cpp:68): the synchronizer
\* holds a reference to it, so it reads the ledger as it stands.
overrideComp(ent) == ent["OverrideComponent"].props

\* Serialize::deserializeEachProperty followed by prop.set_value: a value of the
\* property's type is stored; one that does not deserialize leaves the value.
deserializeEachProperty(mv, cur) == IF mv.ok THEN mv.v ELSE cur

\* The properties of T for which the property loop logs that the value could
\* not be stored: the result of set_value is assigned to the local success
\* (Prefab.cpp:155, 159) and never read, and the loop holds no log statement.
LoggedFailures(T, componentData) == {}

\* Prefab.cpp:144-147: the property is listed in the override ledger
IsOverridden(ent, path) == path \in overrideComp(ent).properties

\* Prefab.cpp:92-100: the component is listed in the ledger's components
IsLocallyAdded(ent, T) == T \in overrideComp(ent).components

\* Prefab.cpp:136-161: the property loop of one component, from property i on
RECURSIVE SyncProperties(_, _, _, _)
SyncProperties(ent, T, componentData, i) ==
    IF i > Len(Properties(T))
    THEN ent
    ELSE LET propName == Properties(T)[i]
             next ==
                 IF propName = "Scene ID" \/ propName = "Parent"
                 THEN ent
                 ELSE IF ~IsOverridden(ent, Path(T, propName)) /\ componentData[propName].defined
                      THEN [ent EXCEPT ![T].props[propName] =
                               deserializeEachProperty(componentData[propName], @)]
                      ELSE ent
         IN  SyncProperties(next, T, componentData, i + 1)

SyncComponentAttachesOnFailure(ent, T, entityData) ==
    IF entityData[T].member
    THEN SyncProperties(IF ~ComponentValid(ent, T) THEN addComponent(ent, T) ELSE ent,
                        T, entityData[T].props, 1)
    ELSE ent

\* Prefab.cpp:123-162: property sync of one component type
SyncComponent(ent, T, entityData) ==
    IF entityData[T].member
    THEN IF ~ComponentValid(ent, T)
         THEN ent                                  \* warning, next component type
         ELSE SyncProperties(ent, T, entityData[T].props, 1)
    ELSE ent

\* Prefab.cpp:83-162: one component type of one instance
SyncType(ent, T, entityData) ==
    IF T = "Scene ID"
    THEN ent
    ELSE LET existsInPrefabAsset == entityData[T].member
             existsInPrefabInstance == hasComponent(ent, T)
             isLocallyAdded == IsLocallyAdded(ent, T)
         IN  IF existsInPrefabAsset /\ ~existsInPrefabInstance /\ ~isLocallyAdded
             THEN IF T = "Child" \/ T = "Parent"
                  THEN ent
                  ELSE SyncComponent(addComponent(ent, T), T, entityData)
             ELSE IF ~existsInPrefabAsset /\ existsInPrefabInstance
                  THEN IF T = "UUIDComponent" \/ T = "OverrideComponent"
                       THEN ent
                       ELSE SyncComponent(IF ~isLocallyAdded
                                          THEN removeComponent(ent, T)
                                          ELSE ent, T, entityData)
                  ELSE SyncComponent(ent, T, entityData)

\* Prefab.cpp:81-163: the loop over the registered component types, from type i on
RECURSIVE SyncInstance(_, _, _, _)
SyncInstance(ent, order, entityData, i) ==
    IF i > Len(order)
    THEN ent
    ELSE SyncInstance(SyncType(ent, order[i], entityData), order, entityData, i + 1)

\* registry->view<UUIDComponent, OverrideComponent>()  (Prefab.cpp:61)
InView(ent) == ent["UUIDComponent"].present /\ ent["OverrideComponent"].present

LoadFailsOnlyUnreadable(doc) == doc.status = "unreadable"

\* loadPrefab (Prefab.cpp:24-45) and the IsNull test (Prefab.cpp:53): a file
\* that can not be opened and a document that does not parse both yield a Null
\* document.
LoadFails(doc) == doc.status \in {"unreadable", "malformed"}

HandleIgnored(ent, handle) == TRUE

\* overrideComp.masterPrefabHandle == handle  (Prefab.cpp:69)
HandleMatches(ent, handle) == overrideComp(ent).masterPrefabHandle = handle

\* Prefab.cpp:46-170: the registry after the pass
SyncRegistry(reg, doc, order, handle) ==
    IF LoadFails(doc)
    THEN reg
    ELSE [e \in DOMAIN reg |->
             IF InView(reg[e]) /\ HandleMatches(reg[e], handle)
             THEN IF doc.status = "noEntity"       \* "Entity" is not an object
                  THEN reg[e]
                  ELSE SyncInstance(reg[e], order, doc.entity, 1)
             ELSE reg[e]]

\* What the caller of updateAllPrefabInstance receives: the function is
\* declared void (Prefab.hpp:62) and leaves through a plain return both when
\* the load fails (Prefab.cpp:56) and at its end (Prefab.cpp:170).
ReturnOf(doc) == "void"

\* HierarchyPanel::updateAllPrefabInstance(handle, sceneManager)
updateAllPrefabInstance(handle) ==
    /\ registry' = SyncRegistry(registry, files[handle], typeOrder, handle)
    /\ sync' = [target |-> handle, previous |-> sync.target, pre |-> registry,
                returned |-> ReturnOf(files[handle])]
    /\ UNCHANGED <<files, typeOrder>>
    /\ UNCHANGED cmdVars
    /\ UNCHANGED histVars
    /\ UNCHANGED seqVars
    /\ UNCHANGED engineVars

(***************************************************************************)
(* Inputs of the synchronizer: master documents and prefab instances       *)
(***************************************************************************)
Value(v) == [defined |-> TRUE, ok |-> TRUE, v |-> v]
BadValue == [defined |-> TRUE, ok |-> FALSE, v |-> 0]
Undefined == [defined |-> FALSE, ok |-> FALSE, v |-> 0]

NoMember(T) == [member |-> FALSE, props |-> [p \in PropertyNames(T) |-> Undefined]]
Member(T, v) == [member |-> TRUE, props |-> [p \in PropertyNames(T) |-> Value(v)]]
EmptyMember(T) == [member |-> TRUE, props |-> [p \in PropertyNames(T) |-> Undefined]]

\* The "OverrideComponent" member of a master document saved from an entity
\* that carries a ledger of its own.
LedgerMember(handle, props, comps) ==
    [member |-> TRUE,
     props |-> [masterPrefabHandle |-> Value(handle), properties |-> Value(props),
                components |-> Value(comps)]]

MasterEntity(ov, id, tr, tg, hi) ==
    [T \in ComponentTypes |->
        CASE T = "OverrideComponent" ->
                (CASE ov = "absent" -> NoMember(T)
                   [] ov = "empty" -> LedgerMember("prefabA", {}, {})
                   [] ov = "lists" -> LedgerMember("prefabA", {"Tag/name"}, {"Tag"})
                   [] ov = "props" -> LedgerMember("prefabA", {"Tag/name"}, {}))
          [] T \in {"UUIDComponent", "Scene ID"} -> IF id THEN Member(T, 9) ELSE NoMember(T)
          [] T = "Transform" ->
                (CASE tr = "absent" -> NoMember(T)
                   [] tr = "good" -> Member(T, 1)
                   [] tr = "bad" -> [Member(T, 1) EXCEPT !.props["position"] = BadValue])
          [] T = "Tag" ->
                (CASE tg = "absent" -> NoMember(T)
                   [] tg = "good" -> Member(T, 1)
                   [] tg = "empty" -> EmptyMember(T))
          [] T \in {"Parent", "Child"} -> IF hi THEN Member(T, 1) ELSE NoMember(T)]

NoEntityData == [T \in ComponentTypes |-> NoMember(T)]

\* The components a file describes whose text does not parse as a whole.
UnparsedEntityData == MasterEntity("absent", FALSE, "good", "good", FALSE)

MasterDocs ==
    {[status |-> "malformed", entity |-> UnparsedEntityData]}
    \cup
    {[status |-> st, entity |-> NoEntityData] : st \in {"unreadable", "noEntity"}}
    \cup
    {[status |-> "ok", entity |-> MasterEntity(ov, id, tr, tg, hi)] :
        ov \in {"absent", "empty", "lists", "props"}, id \in BOOLEAN,
        tr \in {"absent", "good", "bad"}, tg \in {"absent", "good", "empty"},
        hi \in BOOLEAN}

Present(T) == [present |-> TRUE, props |-> DefaultProps(T)]

\* A prefab instance: identity and ledger, and the components it carries.
Instance(uuid, handle, lp, lc, has) ==
    [T \in ComponentTypes |->
        CASE T = "UUIDComponent" -> [present |-> TRUE, props |-> [uuid |-> uuid]]
          [] T = "OverrideComponent" ->
                [present |-> TRUE,
                 props |-> [masterPrefabHandle |-> handle, properties |-> lp,
                            components |-> lc]]
          [] OTHER -> IF T \in has THEN Present(T) ELSE Absent(T)]

LedgerPropertyInputs == {{}, {"Transform/position"}, {"Tag/name", "Child/children"}}
LedgerComponentInputs == {{}, {"Tag"}, {"Transform"}, {"Parent", "Child"}}

InstanceInputs ==
    {Instance(11, "prefabA", lp, lc, {"Scene ID"} \cup tr \cup tg \cup hi) :
        lp \in LedgerPropertyInputs, lc \in LedgerComponentInputs,
        tr \in {{}, {"Transform"}}, tg \in {{}, {"Tag"}}, hi \in {{}, {"Parent", "Child"}}}

\* Entity 1 is the instance under test; entity 2 is a second instance of the
\* same master, entity 3 an instance of another master, entity 4 an entity
\* that is no prefab instance.
OtherEntities ==
    (2 :> Instance(12, "prefabA", {}, {}, {"Transform"})) @@
    (3 :> Instance(13, "prefabB", {}, {}, {"Scene ID", "Transform", "Parent"})) @@
    (4 :> [Instance(14, "none", {}, {}, {"Scene ID", "Transform", "Tag"})
              EXCEPT !["OverrideComponent"] = Absent("OverrideComponent")])

PrefabBDoc == [status |-> "ok", entity |-> MasterEntity("absent", FALSE, "good", "absent", FALSE)]

NoSync == [target |-> "none", previous |-> "none", pre |-> <<>>, returned |-> "none"]

(***************************************************************************)
(* Sequencer controls of the editor (AnimatorController.cpp). Each handler *)
(* is called once per rendered frame for the selected entity's animator;   *)
(* its input is what the user did to its widgets in that frame. Keyframe   *)
(* data, the animators' own frame counters and the clip file are not part  *)
(* of the state: no handler modelled here reads them.                      *)
(***************************************************************************)
Max(a, b) == IF a >= b THEN a ELSE b
Min(a, b) == IF a <= b THEN a ELSE b

\* The values a user types into an InputInt frame field.
FrameInputs == (0 - 1)..(MaxFrame + 1)

\* History: a click on a button (value 1) or no click (value 0) in a frame.
Button(pressed) == [field |-> "button", value |-> IF pressed THEN 1 ELSE 0]

\* AnimationSequencer::StartRecording / StopRecording: the recording flag
StartRecording == TRUE
StopRecording == FALSE

\* Animator::PlayClip / StopPlayback on one animator component
PlayClip(playing, e) == [playing EXCEPT ![e] = TRUE]
StopPlayback(playing, e) == [playing EXCEPT ![e] = FALSE]

\* AnimatorController.cpp:234: animator.isPlaying = false, on the animator
\* handed to renderRecordingControls
StopOnStartRecording(playing, e) == [playing EXCEPT ![e] = FALSE]

\* Editor::renderRecordingControls(animator, selectedEntity); pressed: the
\* "Start Recording" / "Stop Recording" button was clicked in this frame.
renderRecordingControls ==
    \E pressed \in BOOLEAN :
        /\ IF pressed
           THEN IF ~isRecording
                THEN /\ isRecording' = StartRecording
                     /\ isPlaying' = StopOnStartRecording(isPlaying, selected)
                ELSE /\ isRecording' = StopRecording
                     /\ UNCHANGED isPlaying
           ELSE UNCHANGED <<isRecording, isPlaying>>
        /\ handler' = [name |-> "renderRecordingControls", input |-> Button(pressed)]
        /\ UNCHANGED <<selected, currentFrame, clip, editMode>>
        /\ UNCHANGED <<cmdVars, prefabVars, histVars, engineVars>>

\* Editor::renderPlaybackControls(animator, clip); pressed: the "Play" / "Stop"
\* button was clicked in this frame.
renderPlaybackControls ==
    \E pressed \in BOOLEAN :
        /\ IF pressed
           THEN IF isPlaying[selected]
                THEN /\ isPlaying' = StopPlayback(isPlaying, selected)
                     /\ UNCHANGED <<isRecording, currentFrame>>
                ELSE /\ isRecording' = StopRecording
                     /\ isPlaying' = PlayClip(isPlaying, selected)
                     /\ currentFrame' = clip.startFrame
           ELSE UNCHANGED <<isRecording, isPlaying, currentFrame>>
        /\ handler' = [name |-> "renderPlaybackControls", input |-> Button(pressed)]
        /\ UNCHANGED <<selected, clip, editMode>>
        /\ UNCHANGED <<cmdVars, prefabVars, histVars, engineVars>>

\* The edits of one frame in renderFrameControls: a value typed into one of
\* the three frame fields, the Loop checkbox, or nothing.
FrameEdits ==
    {[field |-> f, value |-> v] : f \in {"Start Frame", "Current Frame", "End Frame"},
                                  v \in FrameInputs}
    \cup {[field |-> "Loop", value |-> 0], [field |-> "none", value |-> 0]}

\* AnimatorController.cpp:289: clip->startFrame = std::max(0, clip->startFrame)
StartFrameAfterEdit(c, v) == Max(0, v)

\* AnimatorController.cpp:298
CurrentFrameAfterEdit(c, v) == Max(c.startFrame, Min(v, c.endFrame))

\* AnimatorController.cpp:306
EndFrameAfterEdit(c, v) == Max(c.startFrame, v)

\* Editor::renderFrameControls(clip)
renderFrameControls ==
    \E edit \in FrameEdits :
        /\ clip' = CASE edit.field = "Start Frame" ->
                            [clip EXCEPT !.startFrame = StartFrameAfterEdit(clip, edit.value)]
                     [] edit.field = "End Frame" ->
                            [clip EXCEPT !.endFrame = EndFrameAfterEdit(clip, edit.value)]
                     [] edit.field = "Loop" -> [clip EXCEPT !.isLooping = ~@]
                     [] OTHER -> clip
        /\ currentFrame' = IF edit.field = "Current Frame"
                           THEN CurrentFrameAfterEdit(clip, edit.value)
                           ELSE currentFrame
        /\ handler' = [name |-> "renderFrameControls", input |-> edit]
        /\ UNCHANGED <<selected, isRecording, isPlaying, editMode>>
        /\ UNCHANGED <<cmdVars, prefabVars, histVars, engineVars>>

\* AnimatorController.cpp:332-357: the while loop, with n frame ticks left in
\* the time accumulator. st: [frame, playing].
RECURSIVE AdvanceFrames(_, _, _)
AdvanceFrames(st, c, n) ==
    IF n = 0
    THEN st
    ELSE IF st.frame + 1 > c.endFrame
         THEN IF c.isLooping
              THEN AdvanceFrames([st EXCEPT !.frame = c.startFrame], c, n - 1)
              ELSE [frame |-> c.endFrame, playing |-> FALSE]      \* break
         ELSE AdvanceFrames([st EXCEPT !.frame = st.frame + 1], c, n - 1)

\* Editor::handlePlaybackUpdate(animator, clip, selectedEntity, deltaTime);
\* ticks: the whole 1/30 s steps the accumulated time holds in this frame.
handlePlaybackUpdate ==
    \E ticks \in 0..MaxTicks :
        /\ IF ~isPlaying[selected] \/ ~editMode
           THEN UNCHANGED <<currentFrame, isPlaying>>
           ELSE LET st == AdvanceFrames([frame |-> currentFrame, playing |-> TRUE],
                                        clip, ticks)
                IN  /\ currentFrame' = st.frame
                    /\ isPlaying' = [isPlaying EXCEPT ![selected] = st.playing]
        /\ handler' = [name |-> "handlePlaybackUpdate", input |-> [field |-> "ticks", value |-> ticks]]
        /\ UNCHANGED <<selected, isRecording, clip, editMode>>
        /\ UNCHANGED <<cmdVars, prefabVars, histVars, engineVars>>

\* The user selects another entity in the hierarchy panel.
selectEntity ==
    \E e \in Animators \ {selected} :
        /\ selected' = e
        /\ handler' = [name |-> "selectEntity", input |-> [field |-> e, value |-> 0]]
        /\ UNCHANGED <<isRecording, isPlaying, currentFrame, clip, editMode>>
        /\ UNCHANGED <<cmdVars, prefabVars, histVars, engineVars>>

\* The scene manager enters or leaves EditMode.
setEditorState ==
    /\ editMode' = ~editMode
    /\ handler' = [name |-> "setEditorState", input |-> [field |-> "state", value |-> 0]]
    /\ UNCHANGED <<selected, isRecording, isPlaying, currentFrame, clip>>
    /\ UNCHANGED <<cmdVars, prefabVars, histVars, engineVars>>

\* The sequencer when the editor starts: nothing records or plays.
SeqInit ==
    /\ selected = "e1"
    /\ isRecording = FALSE
    /\ isPlaying = [e \in Animators |-> FALSE]
    /\ currentFrame = 0
    /\ clip = [startFrame |-> 0, endFrame |-> MaxFrame, isLooping |-> FALSE]
    /\ editMode = TRUE
    /\ handler = [name |-> "none", input |-> [field |-> "none", value |-> 0]]

(***************************************************************************)
(* Engine (Engine.cpp): start-up and shutdown of the subsystems            *)
(***************************************************************************)
\* The subsystems Engine::initialize initializes, in the order of its calls
\* (Engine.cpp:27-50), named by the member that owns them.
InitializeOrder ==
    <<"mWindow", "physicsSystem", "audioSystem", "particleSystem",
      "graphicsSystem", "mScriptCore">>

\* The subsystems Engine::shutdown shuts down, in the order of its calls
\* (Engine.cpp:64-69).
ShutdownOrder ==
    <<"graphicsSystem", "particleSystem", "audioSystem", "physicsSystem",
      "mScriptRuntime", "mScriptCore">>

Range(seq) == {seq[i] : i \in DOMAIN seq}

\* The outcomes of one start-up: what each initialize() call returns.
InitializeResults == [Range(InitializeOrder) -> BOOLEAN]

\* TEA_ERROR message of a subsystem whose initialize() returned false.
ErrorOf(s) ==
    CASE s = "mWindow"        -> "Window System failed to initialize"
      [] s = "physicsSystem"  -> "Physics System fail to initialze"
      [] s = "audioSystem"    -> "Audio System fail to initialze"
      [] s = "particleSystem" -> "Particles System fail to initialze"
      [] s = "graphicsSystem" -> "Graphics System fail to initialze"
      [] s = "mScriptCore"    -> "Scripting System fail to initialze"

Banner == "-------------------- Engine Lib ---------------------"

Succeeded == "Engine and its systems initialized succesfully"

\* What Engine::initialize logs when the subsystems return r: the banner, one
\* error per failed subsystem in call order, and the closing message, which
\* no branch skips (Engine.cpp:24-55).
InitializeLog(r) ==
    LET failed == SelectSeq(InitializeOrder, LAMBDA s : ~r[s])
    IN  <<Banner>> \o [i \in 1..Len(failed) |-> ErrorOf(failed[i])] \o <<Succeeded>>

\* The value Engine::initialize returns when the subsystems return r: its
\* only return statement is `return true` (Engine.cpp:59).
InitializeReturn(r) == TRUE

EngineInit ==
    engine = [state       |-> "constructed",
              results     |-> [s \in Range(InitializeOrder) |-> TRUE],
              initialized |-> <<>>,
              log         |-> <<>>,
              returned    |-> "none",
              terminated  |-> <<>>]

\* bool Engine::initialize(): every subsystem of InitializeOrder is
\* initialized whatever the earlier ones returned.
initialize ==
    /\ engine.state = "constructed"
    /\ \E r \in InitializeResults :
          engine' = [engine EXCEPT !.state = "initialized",
                                   !.results = r,
                                   !.initialized = InitializeOrder,
                                   !.log = InitializeLog(r),
                                   !.returned = IF InitializeReturn(r)
                                                THEN "true" ELSE "false"]
    /\ UNCHANGED <<cmdVars, prefabVars, histVars, seqVars>>

\* void Engine::shutdown(entt::registry*)
shutdown ==
    /\ engine.state = "initialized"
    /\ engine' = [engine EXCEPT !.state = "shut down",
                                !.terminated = ShutdownOrder]
    /\ UNCHANGED <<cmdVars, prefabVars, histVars, seqVars>>

(***************************************************************************)
(* Specifications                                                          *)
(***************************************************************************)
CmdInit ==
    /\ undoStack = <<>>
    /\ redoStack = <<>>
    /\ scene = (1 :> [uuid |-> 1, hasTransform |-> TRUE, transform |-> TripleA]) @@
               (2 :> [uuid |-> 2, hasTransform |-> FALSE, transform |-> DefaultTransform])
    /\ nextUUID = 3
    /\ materials = InitMaterials
    /\ nextCmd = 1
    /\ last = [op |-> "none", cmd |-> 0, calls |-> <<>>]
    /\ phase = [i \in 1..MaxCmds |-> [state |-> "Unexecuted", executes |-> 0, made |-> 0]]
    /\ chain = NoChain

\* The editor session of the command history: no prefab pass takes place.
Init ==
    /\ CmdInit
    /\ registry = <<>>
    /\ files = <<>>
    /\ typeOrder = <<>>
    /\ sync = NoSync
    /\ hist = NoHist(FALSE)
    /\ destroyed = {}
    /\ SeqInit
    /\ EngineInit

Next ==
    \/ SubmitCreateEntity
    \/ SubmitTransformEntity
    \/ SubmitChangeMaterialInstance
    \/ undo
    \/ redo

Spec == Init /\ [][Next]_vars

\* A scene with prefab instances and master documents on disk; the user saves
\* no master and edits no instance between the passes.
InitPrefab ==
    /\ CmdInit
    /\ \E inst \in InstanceInputs : registry = (1 :> inst) @@ OtherEntities
    /\ \E doc \in MasterDocs : files = [h \in PrefabHandles |->
                                          IF h = "prefabA" THEN doc ELSE PrefabBDoc]
    /\ typeOrder \in TypeOrders
    /\ sync = NoSync
    /\ hist = NoHist(FALSE)
    /\ destroyed = {}
    /\ SeqInit
    /\ EngineInit

NextPrefab == \E handle \in PrefabHandles : updateAllPrefabInstance(handle)

SpecPrefab == InitPrefab /\ [][NextPrefab]_vars

\* The editor session of the entity commands: entities are created and moved
\* through the command history and may be deleted outside it; the calls
\* since the latest submission are recorded.
InitEntities ==
    /\ CmdInit
    /\ registry = <<>>
    /\ files = <<>>
    /\ typeOrder = <<>>
    /\ sync = NoSync
    /\ hist = NoHist(TRUE)
    /\ destroyed = {}
    /\ SeqInit
    /\ EngineInit

NextEntities ==
    \/ SubmitCreateEntity
    \/ SubmitTransformEntity
    \/ undo
    \/ redo
    \/ DestroyByOtherMeans

SpecEntities == InitEntities /\ [][NextEntities]_vars

\* The editor session of the sequencer window: two entities with an animator
\* that play the same clip; no command is submitted and no prefab pass runs.
InitSequencer ==
    /\ CmdInit
    /\ registry = <<>>
    /\ files = <<>>
    /\ typeOrder = <<>>
    /\ sync = NoSync
    /\ hist = NoHist(FALSE)
    /\ destroyed = {}
    /\ SeqInit
    /\ EngineInit

NextSequencer ==
    \/ renderRecordingControls
    \/ renderPlaybackControls
    \/ renderFrameControls
    \/ handlePlaybackUpdate
    \/ selectEntity
    \/ setEditorState

SpecSequencer == InitSequencer /\ [][NextSequencer]_vars

\* One run of the application: the engine is started and shut down; no editor
\* window is used.
InitEngine ==
    /\ CmdInit
    /\ registry = <<>>
    /\ files = <<>>
    /\ typeOrder = <<>>
    /\ sync = NoSync
    /\ hist = NoHist(FALSE)
    /\ destroyed = {}
    /\ SeqInit
    /\ EngineInit

NextEngine ==
    \/ initialize
    \/ shutdown

SpecEngine == InitEngine /\ [][NextEngine]_vars

(***************************************************************************)
(* Properties of the CommandManager                                        *)
(***************************************************************************)
InUndo(id) == \E i \in DOMAIN undoStack : undoStack[i].id = id
InRedo(id) == \E i \in DOMAIN redoStack : redoStack[i].id = id
Discarded(id) == id < nextCmd /\ ~InUndo(id) /\ ~InRedo(id)

\* C1: every executeCommand(cmd) step invokes cmd.execute() and nothing else
\* before it returns, leaves the undo stack equal to the previous undo stack
\* with cmd on top, and leaves the redo stack empty whatever it held.
C1_ExecuteCommand ==
    [][nextCmd' # nextCmd =>
          /\ last'.calls = <<<<nextCmd, "execute">>>>
          /\ phase'[nextCmd].state = "Executed"
          /\ Len(undoStack') = Len(undoStack) + 1
          /\ Pop(undoStack') = undoStack
          /\ Top(undoStack').id = nextCmd
          /\ redoStack' = <<>>]_vars

\* An executeCommand has just returned and it discarded an undone command
\* that the redo stack held.
C1_Witness ==
    /\ last.op = "executeCommand"
    /\ redoStack = <<>>
    /\ \E id \in 1..MaxCmds : Discarded(id) /\ phase[id].state = "Undone"

\* C2: history is linear. Right after executeCommand(b) the redo stack is empty,
\* so a redo() reaches no command (an a undone before b was submitted can not
\* come back), and an undo() invokes b.undo() and moves b, no other command.
C2_HistoryLinearity ==
    [][last.op = "executeCommand" =>
          /\ redoStack = <<>>
          /\ last'.op = "redo" => (last'.calls = <<>> /\ UNCHANGED <<undoStack, redoStack>>)
          /\ last'.op = "undo" =>
                /\ last'.calls = <<<<last.cmd, "undo">>>>
                /\ Len(redoStack') = 1
                /\ redoStack'[1].id = last.cmd
                /\ \A id \in 1..MaxCmds : Discarded(id) => (Discarded(id))'
          ]_vars

\* executeCommand(a), undo(), executeCommand(b), undo() has run: b was reverted
\* and is the one command redo() can reach; a is gone from both stacks.
C2_Witness ==
    /\ last.op = "undo"
    /\ last.cmd # 0
    /\ Len(redoStack) = 1
    /\ \E a \in 1..MaxCmds : a # last.cmd /\ Discarded(a) /\ phase[a].state = "Undone"

\* C3 as stated: executeCommand then undo() leads back to the state S of the
\* submission, and a redo() after that to the state right after executeCommand,
\* for every command and every S.
C3_InverseLaw ==
    /\ chain.stage = 2 => Observable(World) = chain.pre
    /\ chain.stage = 3 => Observable(World) = chain.post

\* C3 amended: executeCommand then undo() leads back to S when the command was
\* built from S (the old values it stores are the values its target holds in
\* S); a redo() after that leads to the state right after executeCommand for
\* every command.
C3_InverseLawBuiltFrom ==
    /\ (chain.stage = 2 /\ chain.builtFrom) => Observable(World) = chain.pre
    /\ chain.stage = 3 => Observable(World) = chain.post

\* A command built from S that changed the scene has been executed, undone
\* and redone.
C3_Witness ==
    /\ chain.stage = 3
    /\ chain.builtFrom
    /\ chain.pre # chain.post
    /\ Top(undoStack).kind = "TransformEntity"

\* C4: undo() on a non-empty undo stack removes exactly the top command,
\* invokes that command's undo() once and no other method, and puts it on top
\* of the redo stack; every other entry of both stacks stays where it was.
C4_UndoMovesTop ==
    [][(last'.op = "undo" /\ undoStack # <<>>) =>
          /\ undoStack' = Pop(undoStack)
          /\ Len(redoStack') = Len(redoStack) + 1
          /\ Pop(redoStack') = redoStack
          /\ Top(redoStack').id = Top(undoStack).id
          /\ last'.calls = <<<<Top(undoStack).id, "undo">>>>]_vars

\* undo() has moved a command onto a redo stack that already held one.
C4_Witness ==
    /\ last.op = "undo"
    /\ last.cmd # 0
    /\ Len(redoStack) >= 2

\* C5: redo() on a non-empty redo stack removes exactly the top command,
\* invokes that command's redo() once and no other method, and puts it on top
\* of the undo stack; every other entry of both stacks stays where it was.
C5_RedoMovesTop ==
    [][(last'.op = "redo" /\ redoStack # <<>>) =>
          /\ redoStack' = Pop(redoStack)
          /\ Len(undoStack') = Len(undoStack) + 1
          /\ Pop(undoStack') = undoStack
          /\ Top(undoStack').id = Top(redoStack).id
          /\ last'.calls = <<<<Top(redoStack).id, "redo">>>>]_vars

\* redo() has moved a command onto an undo stack that already held one.
C5_Witness ==
    /\ last.op = "redo"
    /\ last.cmd # 0
    /\ Len(undoStack) >= 2

\* C6: undo() on an empty undo stack and redo() on an empty redo stack change
\* neither stack nor the scene and invoke no Command method.
C6_EmptyStackNoOp ==
    [][/\ (last'.op = "undo" /\ undoStack = <<>>) =>
             /\ last'.calls = <<>>
             /\ UNCHANGED <<undoStack, redoStack, scene, nextUUID, materials, phase>>
       /\ (last'.op = "redo" /\ redoStack = <<>>) =>
             /\ last'.calls = <<>>
             /\ UNCHANGED <<undoStack, redoStack, scene, nextUUID, materials, phase>>
      ]_vars

\* undo() has returned early on an empty undo stack while the redo stack held
\* a command.
C6_Witness ==
    /\ last.op = "undo"
    /\ last.cmd = 0
    /\ undoStack = <<>>
    /\ redoStack # <<>>

C7_StateMachine ==
    /\ \A id \in 1..MaxCmds :
          IF id < nextCmd
          THEN phase[id].executes = 1 /\ phase[id].state \in {"Executed", "Undone"}
          ELSE phase[id].executes = 0 /\ phase[id].state = "Unexecuted"
    /\ \A i \in DOMAIN undoStack : phase[undoStack[i].id].state = "Executed"
    /\ \A i \in DOMAIN redoStack : phase[redoStack[i].id].state = "Undone"

C7_Calls ==
    last' # last =>
        \A k \in DOMAIN last'.calls :
            LET id == last'.calls[k][1]
                method == last'.calls[k][2]
            IN  /\ method = "execute" =>
                      (phase[id].state = "Unexecuted" /\ last'.op = "executeCommand")
                /\ method = "undo" => phase[id].state = "Executed"
                /\ method = "redo" => phase[id].state = "Undone"

\* C7: every Command instance goes Unexecuted -> Executed -> Undone ->
\* Executed ...: execute() is invoked once, by executeCommand; undo() only on
\* an Executed command and redo() only on an Undone one; the undo stack holds
\* Executed commands and the redo stack Undone ones.
C7_CommandLifecycle == []C7_StateMachine /\ [][C7_Calls]_vars

\* A command has been executed, undone and redone, and is on the undo stack.
C7_Witness ==
    /\ last.op = "redo"
    /\ last.cmd # 0
    /\ phase[last.cmd].state = "Executed"
    /\ InUndo(last.cmd)

\* C8: the entity of a CreateEntityCommand that is in effect (on the undo
\* stack) is live and carries the UUID the command's execute() produced,
\* however many undo()/redo() cycles the command went through.
C8_IdentityPreserved ==
    \A i \in DOMAIN undoStack :
        undoStack[i].kind = "CreateEntity" =>
            /\ EntityValid(World, undoStack[i].entity)
            /\ scene[undoStack[i].entity].uuid = phase[undoStack[i].id].made
            /\ phase[undoStack[i].id].made # 0

\* A CreateEntityCommand has been executed, undone and redone.
C8_Witness ==
    /\ chain.stage = 3
    /\ Top(undoStack).kind = "CreateEntity"

\* C20: when the reflective mutation of a ChangeMaterialInstanceCommand fails
\* during undo() or redo() (no sequential view, set at index fails, or property
\* set fails), the manager still moves the command: it leaves the stack it was
\* on top of and lies on top of the other stack, all other entries in place,
\* exactly as after a successful undo()/redo().
C20_FailedMutationStillMoves ==
    [][/\ (last'.op = "undo" /\ undoStack # <<>> /\ MutationFails(Top(undoStack))) =>
              /\ undoStack' = Pop(undoStack)
              /\ redoStack' # <<>>
              /\ Pop(redoStack') = redoStack
              /\ Top(redoStack').id = Top(undoStack).id
       /\ (last'.op = "redo" /\ redoStack # <<>> /\ MutationFails(Top(redoStack))) =>
              /\ redoStack' = Pop(redoStack)
              /\ undoStack' # <<>>
              /\ Pop(undoStack') = undoStack
              /\ Top(undoStack').id = Top(redoStack).id]_vars

\* redo() has moved a command whose property set fails onto an undo stack that
\* holds a command without a sequential view below it; the material array is
\* the initial one, so neither command has written anything.
C20_Witness ==
    /\ last.op = "redo"
    /\ Len(undoStack) = 2
    /\ Top(undoStack).id = last.cmd
    /\ MutationFails(Top(undoStack)) /\ ~Top(undoStack).propSettable
    /\ MutationFails(undoStack[1]) /\ ~undoStack[1].sequential
    /\ materials = InitMaterials

(***************************************************************************)
(* Properties of the prefab synchronizer. They speak about the state after *)
(* a pass: sync.target is the handle of the pass, sync.pre the registry    *)
(* before it, files[sync.target] the master document it loaded.            *)
(***************************************************************************)
PassDone == sync.target # "none"

\* The instances of the pass: the ledger's master handle is the target handle.
Matching(e) ==
    /\ InView(sync.pre[e])
    /\ overrideComp(sync.pre[e]).masterPrefabHandle = sync.target

\* Component T is present in the master document.
MasterHas(T) ==
    /\ files[sync.target].status = "ok"
    /\ files[sync.target].entity[T].member

\* The master document defines a value for property p of T.
MasterDefines(T, p) == MasterHas(T) /\ files[sync.target].entity[T].props[p].defined

\* The instance's value x of p is the value the master defines.
EqualsMaster(T, p, x) ==
    /\ files[sync.target].entity[T].props[p].ok
    /\ x = files[sync.target].entity[T].props[p].v

\* C9 as stated: a property p of a component T that the master document and
\* the instance both have, and whose path "T/p" is in the instance's ledger
\* properties list, has the same value after the pass as before.
C9_OverrideProtection ==
    PassDone =>
        \A e \in DOMAIN registry : Matching(e) =>
            \A T \in ComponentTypes : \A p \in PropertyNames(T) :
                (/\ MasterHas(T)
                 /\ sync.pre[e][T].present
                 /\ Path(T, p) \in overrideComp(sync.pre[e]).properties)
                    => /\ registry[e][T].present
                       /\ registry[e][T].props[p] = sync.pre[e][T].props[p]

\* C10 as stated: a property p of a component T that the master document and
\* the instance both have, whose path "T/p" is absent from the ledger
\* properties list and for which the master defines a value, holds the
\* master's value after the pass.
C10_MasterPropagation ==
    PassDone =>
        \A e \in DOMAIN registry : Matching(e) =>
            \A T \in ComponentTypes : \A p \in PropertyNames(T) :
                (/\ MasterDefines(T, p)
                 /\ sync.pre[e][T].present
                 /\ Path(T, p) \notin overrideComp(sync.pre[e]).properties)
                    => /\ registry[e][T].present
                       /\ EqualsMaster(T, p, registry[e][T].props[p])

\* The ledger of instance e before the pass.
PreLedger(e) == overrideComp(sync.pre[e])

\* C11 as stated: a property p of a component T the instance carries, whose
\* path "T/p" is in the instance's property-override list, is still held by the
\* instance with the same value after the pass, whatever the master document
\* contains - also when it does not contain T.
C11_OverrideNeverMutated ==
    PassDone =>
        \A e \in DOMAIN registry : Matching(e) =>
            \A T \in ComponentTypes : \A p \in PropertyNames(T) :
                (/\ sync.pre[e][T].present
                 /\ Path(T, p) \in PreLedger(e).properties)
                    => /\ registry[e][T].present
                       /\ registry[e][T].props[p] = sync.pre[e][T].props[p]

\* C12 as stated (add rule): a component type T present in the master
\* document, absent on a matching instance and not listed in the instance
\* ledger's components list is attached to the instance by the pass.
C12_AddRule ==
    PassDone =>
        \A e \in DOMAIN registry : Matching(e) =>
            \A T \in ComponentTypes :
                (/\ MasterHas(T)
                 /\ ~sync.pre[e][T].present
                 /\ T \notin PreLedger(e).components)
                    => registry[e][T].present

\* C13 as stated (remove rule): a component type T present on a matching
\* instance, absent from the master document (a document with an "Entity"
\* object) and not listed in the instance ledger's components list is detached
\* from the instance by the pass.
C13_RemoveRule ==
    (PassDone /\ files[sync.target].status = "ok") =>
        \A e \in DOMAIN registry : Matching(e) =>
            \A T \in ComponentTypes :
                (/\ ~MasterHas(T)
                 /\ sync.pre[e][T].present
                 /\ T \notin PreLedger(e).components)
                    => ~registry[e][T].present

\* C14 as stated: a component type T listed in the instance ledger's components
\* list (locally added), carried by the instance and absent from the master
\* document (a document with an "Entity" object) is still attached after the
\* pass, with unchanged property values.
C14_LocallyAddedPreserved ==
    (PassDone /\ files[sync.target].status = "ok") =>
        \A e \in DOMAIN registry : Matching(e) =>
            \A T \in ComponentTypes :
                (/\ ~MasterHas(T)
                 /\ sync.pre[e][T].present
                 /\ T \in PreLedger(e).components)
                    => registry[e][T] = sync.pre[e][T]

\* C15 (abort on bad master): when the master file is unreadable or its
\* document does not parse, every entity of the registry has the same
\* components and property values after the pass as before.
C15_AbortOnBadMaster ==
    (PassDone /\ files[sync.target].status \in {"unreadable", "malformed"})
        => registry = sync.pre

\* A pass over a malformed master that has an instance in the scene whose
\* Transform the file's text would have changed.
C15_Witness ==
    /\ PassDone
    /\ files[sync.target].status = "malformed"
    /\ \E e \in DOMAIN registry :
          /\ Matching(e)
          /\ sync.pre[e]["Transform"].present
          /\ sync.pre[e]["Transform"].props["position"]
                # files[sync.target].entity["Transform"].props["position"].v
          /\ "Transform/position" \notin PreLedger(e).properties

\* C16 (frame): the pass creates and destroys no entity, and an entity whose
\* ledger master handle differs from the target handle, or that has no
\* OverrideComponent, has the same components and property values after the
\* pass as before.
C16_OnlyMatchingInstances ==
    PassDone =>
        /\ DOMAIN registry = DOMAIN sync.pre
        /\ \A e \in DOMAIN registry : ~Matching(e) => registry[e] = sync.pre[e]

\* A pass that changed an instance of the target master while the scene holds
\* an instance of another master and an entity without a ledger.
C16_Witness ==
    /\ PassDone
    /\ \E e \in DOMAIN registry : Matching(e) /\ registry[e] # sync.pre[e]
    /\ \E e \in DOMAIN registry :
          /\ InView(sync.pre[e])
          /\ overrideComp(sync.pre[e]).masterPrefabHandle # sync.target
    /\ \E e \in DOMAIN registry : ~sync.pre[e]["OverrideComponent"].present

\* C17 as stated (the synchronizer only reads the ledger): for any master
\* content, the ledger of every instance - properties list, components list
\* and masterPrefabHandle - is the same after the pass as before.
C17_LedgerReadOnly ==
    PassDone =>
        \A e \in DOMAIN registry : InView(sync.pre[e]) =>
            /\ registry[e]["OverrideComponent"].present
            /\ overrideComp(registry[e]).properties = PreLedger(e).properties
            /\ overrideComp(registry[e]).components = PreLedger(e).components
            /\ overrideComp(registry[e]).masterPrefabHandle = PreLedger(e).masterPrefabHandle

\* C18 as stated: the pass never attaches and never detaches a component whose
\* type name is one of the protected structural names.
C18_StructuralNamesExcluded ==
    PassDone =>
        \A e \in DOMAIN registry :
            \A T \in {"Scene ID", "Child", "Parent", "UUIDComponent", "OverrideComponent"} :
                registry[e][T].present = sync.pre[e][T].present

\* Position of type T in the order the pass walks the component types.
IndexOf(order, T) == CHOOSE i \in DOMAIN order : order[i] = T

\* Instance e as the pass has left it when it reaches type T.
Reaching(e, T) ==
    SyncInstance(sync.pre[e], SubSeq(typeOrder, 1, IndexOf(typeOrder, T) - 1),
                 files[sync.target].entity, 1)

\* The reflective lookup of T fails on instance e during the pass: the master
\* has T, the add rule does not fire, and getComponent(T) is invalid
\* (Prefab.cpp:123-132).
LookupFails(e, T) ==
    /\ T # "Scene ID"
    /\ MasterHas(T)
    /\ ~hasComponent(Reaching(e, T), T)
    /\ IsLocallyAdded(Reaching(e, T), T)

\* C19 (reflection-failure recovery): when the master has component type T and
\* getComponent(T) is invalid on an instance, no property of T is written on
\* that instance, its other component types end as in a pass over the same
\* master without T, and every other instance ends as the pass over the master
\* leaves it.
C19_ReflectionFailureRecovery ==
    PassDone =>
        \A e \in DOMAIN registry : \A T \in ComponentTypes :
            (Matching(e) /\ LookupFails(e, T)) =>
                /\ registry[e][T] = sync.pre[e][T]
                /\ registry[e] =
                      SyncInstance(sync.pre[e], typeOrder,
                                   [files[sync.target].entity EXCEPT ![T] = NoMember(T)], 1)
                /\ \A o \in DOMAIN registry \ {e} :
                      Matching(o) =>
                          registry[o] = SyncInstance(sync.pre[o], typeOrder,
                                                     files[sync.target].entity, 1)

\* A pass in which the lookup of T failed on an instance, a type walked after T
\* was changed on that instance, and another instance was changed too.
C19_Witness ==
    /\ PassDone
    /\ \E e \in DOMAIN registry : \E T \in ComponentTypes :
          /\ Matching(e)
          /\ LookupFails(e, T)
          /\ \E U \in ComponentTypes :
                /\ IndexOf(typeOrder, U) > IndexOf(typeOrder, T)
                /\ registry[e][U] # sync.pre[e][U]
          /\ \E o \in DOMAIN registry \ {e} : Matching(o) /\ registry[o] # sync.pre[o]

\* C21 as stated: when the master file can not be opened or parsed, the caller
\* of updateAllPrefabInstance receives an outcome that differs from the outcome
\* of every pass over a master that loads.
C21_FailureReported ==
    (PassDone /\ files[sync.target].status \in {"unreadable", "malformed"}) =>
        \A doc \in MasterDocs :
            doc.status \notin {"unreadable", "malformed"} => sync.returned # ReturnOf(doc)

\* Component T of instance e was attached by the add rule of the pass: the
\* master document has it, the instance lacked it before and carries it after.
AttachedByPass(e, T) ==
    /\ MasterHas(T)
    /\ ~sync.pre[e][T].present
    /\ registry[e][T].present

\* C27 as stated: every property p of a component T attached by the add rule
\* whose path "T/p" is not in the instance's ledger and for which the master
\* defines a value equals the master's value at the end of the pass.
C27_AttachedComponentFilled ==
    PassDone =>
        \A e \in DOMAIN registry : Matching(e) =>
            \A T \in ComponentTypes : \A p \in PropertyNames(T) :
                (/\ AttachedByPass(e, T)
                 /\ MasterDefines(T, p)
                 /\ Path(T, p) \notin PreLedger(e).properties)
                    => EqualsMaster(T, p, registry[e][T].props[p])

(***************************************************************************)
(* Ownership, stack discipline and the concrete commands                   *)
(***************************************************************************)
\* The slots of the two stacks that hold the Command instance id.
Slots(id) ==
    {<<"undo", i>> : i \in {j \in DOMAIN undoStack : undoStack[j].id = id}} \cup
    {<<"redo", i>> : i \in {j \in DOMAIN redoStack : redoStack[j].id = id}}

C22_OneSlot ==
    \A id \in 1..MaxCmds :
        /\ Cardinality(Slots(id)) <= 1
        /\ (id >= nextCmd) => Slots(id) = {}

C22_DiscardedIsGone ==
    \A id \in 1..MaxCmds :
        Discarded(id) =>
            /\ (Discarded(id))'
            /\ \A k \in DOMAIN last'.calls : last'.calls[k][1] # id

\* C22: sole ownership. Every Command instance the manager holds occupies
\* exactly one slot of exactly one of the two stacks, and an instance that is
\* in neither stack any more (executeCommand dropped it from the redo stack)
\* stays out of both and receives no undo() and no redo() in any later step.
C22_SoleOwnership == []C22_OneSlot /\ [][C22_DiscardedIsGone]_vars

\* executeCommand dropped an undone command from the redo stack, and after
\* that an undo() and a redo() ran on the command that replaced it.
C22_Witness ==
    /\ last.op = "redo"
    /\ last.cmd # 0
    /\ Cardinality(Slots(last.cmd)) = 1
    /\ \E id \in 1..MaxCmds : id # last.cmd /\ Discarded(id) /\ phase[id].state = "Undone"

\* The step is a CommandManager call that invokes method m of a command.
StepCalls(m) ==
    CASE m = "execute" -> nextCmd' # nextCmd
      [] m = "undo" -> nextCmd' = nextCmd /\ Len(undoStack') = Len(undoStack) - 1
      [] m = "redo" -> nextCmd' = nextCmd /\ Len(undoStack') = Len(undoStack) + 1

\* The command the step invoked, as the manager holds it after the call.
Called(m) == IF m = "undo" THEN Top(redoStack') ELSE Top(undoStack')

\* C29: execute() and redo() of a TransformEntityCommand whose entity is live
\* and has a Transform set position, rotation and scale to the stored new
\* triple, undo() sets them to the stored old triple, whatever the transform
\* held; no other entity, no other component of the entity and nothing else
\* of the scene changes.
C29_TransformExact ==
    [][\A m \in {"execute", "undo", "redo"} :
          (/\ StepCalls(m)
           /\ Called(m).kind = "TransformEntity"
           /\ EntityValid(World, Called(m).entity)
           /\ HasTransform(World, Called(m).entity))
              => /\ scene' = [scene EXCEPT ![Called(m).entity].transform =
                                 IF m = "undo" THEN Called(m).old ELSE Called(m).new]
                 /\ UNCHANGED <<nextUUID, materials, registry>>]_vars

\* A transform command with different triples was executed on a live entity,
\* undone and redone: the entity holds the new triple, which is neither the
\* old triple nor the default of a new entity.
C29_Witness ==
    /\ last.op = "redo"
    /\ undoStack # <<>>
    /\ Top(undoStack).id = last.cmd
    /\ Top(undoStack).kind = "TransformEntity"
    /\ Top(undoStack).old # Top(undoStack).new
    /\ EntityValid(World, Top(undoStack).entity)
    /\ HasTransform(World, Top(undoStack).entity)
    /\ scene[Top(undoStack).entity].transform = Top(undoStack).new

\* C30 as stated: execute(), undo() and redo() of a ChangeMaterialInstanceCommand
\* leave every slot of the material array other than the slot at the stored
\* index with the value it had immediately before the call.
C30_OnlyIndexedSlot ==
    [][\A m \in {"execute", "undo", "redo"} :
          (StepCalls(m) /\ Called(m).kind = "ChangeMaterialInstance")
              => /\ Len(materials') = Len(materials)
                 /\ \A j \in DOMAIN materials :
                        j # Called(m).index => materials'[j] = materials[j]]_vars

\* The methods C23 speaks about: every method of a TransformEntityCommand and
\* undo() of a CreateEntityCommand.
UsesTarget(m, c) ==
    \/ c.kind = "TransformEntity"
    \/ c.kind = "CreateEntity" /\ m = "undo"

\* C23 as stated: when the target entity of the command was destroyed outside
\* the command history, the method called tests liveness before it touches the
\* entity (it makes no unchecked use of the handle), leaves the world as it was
\* and completes with a stale-reference outcome.
C23_StaleReference ==
    [][\A m \in {"execute", "undo", "redo"} :
          (/\ StepCalls(m)
           /\ UsesTarget(m, Called(m))
           /\ Called(m).entity \in destroyed
           /\ ~EntityValid(World, Called(m).entity))
              => /\ UNCHANGED <<scene, nextUUID, materials>>
                 /\ UncheckedUse(m, Called(m)) = {}
                 /\ Outcome(m, Called(m), World) = "stale reference"]_vars

\* C26 as stated: after executeCommand(CreateEntityCommand),
\* executeCommand(TransformEntityCommand on the created entity), undo(), undo(),
\* redo(), redo() the scene an observer sees is the scene right after the two
\* submissions.
C26_RecreatedEntityMoved ==
    (hist.ok /\ hist.onCreated /\ hist.undos = 2 /\ hist.redos = 2)
        => Observable(World) = hist.snap

C28_Restored ==
    (hist.ok /\ hist.undos >= 1 /\ hist.redos = hist.undos)
        => /\ Ids(undoStack) = hist.base
           /\ redoStack = <<>>

C28_Order ==
    /\ (hist.ok /\ hist'.ok /\ hist'.undos = hist.undos + 1)
          => /\ last'.calls = <<<<hist.base[Len(hist.base) - hist.undos], "undo">>>>
             /\ Ids(undoStack') = SubSeq(hist.base, 1, Len(hist.base) - hist.undos - 1)
    /\ (hist.ok /\ hist'.ok /\ hist'.redos = hist.redos + 1)
          => /\ last'.calls =
                    <<<<hist.base[Len(hist.base) - hist.undos + hist.redos + 1], "redo">>>>
             /\ Ids(undoStack') =
                    SubSeq(hist.base, 1, Len(hist.base) - hist.undos + hist.redos + 1)

\* C28: stack discipline. With c1..cn the undo stack after a submission, the
\* i-th of k successive undo() calls (k <= n) invokes undo() on c(n-i+1), the
\* j-th of the redo() calls that follow invokes redo() on c(n-k+j), and after
\* k redo() the undo stack is c1..cn again and the redo stack is empty.
C28_StackDiscipline == []C28_Restored /\ [][C28_Order]_vars

\* Two commands were submitted, both were undone and both redone.
C28_Witness ==
    /\ hist.ok
    /\ Len(hist.base) = 2
    /\ hist.undos = 2
    /\ hist.redos = 2
    /\ last.op = "redo"
    /\ last.cmd = hist.base[2]

(***************************************************************************)
(* Properties of the sequencer controls                                    *)
(***************************************************************************)
\* C24 as stated: whatever Start/Stop Recording and Play/Stop clicks and
\* changes of the selected entity took place, the sequencer does not record
\* while the animator shown in the sequencer window plays.
C24_RecordingExcludesPlayback == ~(isRecording /\ isPlaying[selected])

\* The clip's frame range and the editor's current frame are valid.
ValidRange ==
    /\ 0 <= clip.startFrame
    /\ clip.startFrame <= clip.endFrame
    /\ clip.startFrame <= currentFrame
    /\ currentFrame <= clip.endFrame

\* C25 as stated: an edit through renderFrameControls that starts from a
\* valid range leaves 0 <= startFrame <= endFrame and
\* startFrame <= currentFrame <= endFrame.
C25_FrameRangeValid ==
    [][(handler'.name = "renderFrameControls" /\ ValidRange) => ValidRange']_vars

(***************************************************************************)
(* Further properties of the prefab synchronizer                           *)
(***************************************************************************)
\* C31 as stated: a component type T named in the ledger's components list,
\* present in the master document and absent on the instance is not attached
\* by the pass, and the pass writes no property of it.
C31_LocallyRemovedStaysRemoved ==
    PassDone =>
        \A e \in DOMAIN registry : Matching(e) =>
            \A T \in ComponentTypes :
                (/\ MasterHas(T)
                 /\ ~sync.pre[e][T].present
                 /\ T \in PreLedger(e).components)
                    => registry[e][T] = sync.pre[e][T]

\* The identity and hierarchy-link components.
IdentityAndLinks == {"UUIDComponent", "Child", "Parent"}

\* C32 as stated: whatever the master document contains, every property of an
\* instance's UUIDComponent, Child and Parent component has the same value
\* after the pass as before, so two instances of one master do not end with
\* the same identifier.
C32_IdentityAndLinksUntouched ==
    PassDone =>
        /\ \A e \in DOMAIN registry : Matching(e) =>
              \A T \in IdentityAndLinks :
                  (sync.pre[e][T].present /\ registry[e][T].present)
                      => registry[e][T].props = sync.pre[e][T].props
        /\ \A e1, e2 \in DOMAIN registry :
              (e1 # e2 /\ Matching(e1) /\ Matching(e2))
                  => registry[e1]["UUIDComponent"].props # registry[e2]["UUIDComponent"].props

\* Property p of T on instance e could not be stored by the pass: the
\* property loop reached it (T is on the instance and in the master, p is
\* neither skipped by name nor overridden) and the master's value for it does
\* not deserialize.
StoreFailed(e, T, p) ==
    /\ MasterDefines(T, p)
    /\ ~files[sync.target].entity[T].props[p].ok
    /\ T # "Scene ID"
    /\ p \notin {"Scene ID", "Parent"}
    /\ sync.pre[e][T].present
    /\ Path(T, p) \notin PreLedger(e).properties
    /\ Path(T, p) \notin overrideComp(registry[e]).properties

\* C33 as stated: a property whose deserialize or set fails is logged and
\* skipped; it keeps the value it had before the pass.
C33_FailedPropertySkipped ==
    PassDone =>
        \A e \in DOMAIN registry : Matching(e) =>
            \A T \in ComponentTypes : \A p \in PropertyNames(T) :
                StoreFailed(e, T, p) =>
                    /\ registry[e][T].present
                    /\ registry[e][T].props[p] = sync.pre[e][T].props[p]
                    /\ p \in LoggedFailures(T, files[sync.target].entity[T].props)

\* C35 as stated: a pass that directly follows a pass for the same handle
\* (the master documents are fixed and nothing edits a ledger between the
\* two) leaves the registry as the first pass left it.
C35_Idempotent ==
    (PassDone /\ sync.previous = sync.target) => registry = sync.pre

(***************************************************************************)
(* Identifier uniqueness under the command history                         *)
(***************************************************************************)
\* The live entities that carry identifier u.
Carriers(u) == {h \in DOMAIN scene : scene[h].uuid = u}

\* C34: with the world changed through the command manager only, exactly one
\* live entity carries the UUID of a CreateEntityCommand on the undo stack, no
\* live entity carries the UUID of one on the redo stack, and no two live
\* entities carry the same UUID.
C34_UniqueIdentifiers ==
    /\ \A i \in DOMAIN undoStack :
          undoStack[i].kind = "CreateEntity" =>
              Cardinality(Carriers(undoStack[i].uuid)) = 1
    /\ \A i \in DOMAIN redoStack :
          redoStack[i].kind = "CreateEntity" => Carriers(redoStack[i].uuid) = {}
    /\ \A g, h \in DOMAIN scene : g # h => scene[g].uuid # scene[h].uuid

\* One CreateEntityCommand is in effect, its entity live beside the two of
\* the start-up scene, and another CreateEntityCommand is undone.
C34_Witness ==
    /\ \E i \in DOMAIN undoStack :
          undoStack[i].kind = "CreateEntity" /\ phase[undoStack[i].id].state = "Executed"
    /\ \E i \in DOMAIN redoStack :
          redoStack[i].kind = "CreateEntity" /\ redoStack[i].uuid # 0
    /\ Cardinality(DOMAIN scene) = 3

(***************************************************************************)
(* Playback in the sequencer                                               *)
(***************************************************************************)
\* The step is a handlePlaybackUpdate for an animator that plays in EditMode.
PlaybackStep ==
    /\ handler'.name = "handlePlaybackUpdate"
    /\ isPlaying[selected]
    /\ editMode

\* What C36 says of one update that consumes n frame ticks.
PlaybackEnd(n) ==
    /\ currentFrame' <= clip.endFrame
    /\ clip.isLooping => isPlaying'[selected]
    /\ (currentFrame + n <= clip.endFrame)
          => (currentFrame' = currentFrame + n /\ isPlaying'[selected])
    /\ (~clip.isLooping /\ currentFrame + n > clip.endFrame)
          => (currentFrame' = clip.endFrame /\ ~isPlaying'[selected])

\* C36 as stated: while the animator plays in EditMode every frame tick
\* advances the current frame by one; past endFrame a looping clip wraps to
\* startFrame and keeps playing, a non-looping clip stops at endFrame with
\* isPlaying = false; the current frame does not exceed endFrame after an
\* update.
C36_PlaybackEndHandling ==
    [][PlaybackStep => PlaybackEnd(handler'.input.value)]_vars

(***************************************************************************)
(* Properties of the Engine                                                *)
(***************************************************************************)
Reverse(seq) == [i \in 1..Len(seq) |-> seq[Len(seq) + 1 - i]]

\* C37 as stated: once shutdown() has run, the subsystems were terminated in
\* exactly the reverse of the order in which initialize() initialized them.
C37_ShutdownReversesInitialize ==
    engine.state = "shut down" => engine.terminated = Reverse(engine.initialized)

\* C38 as stated: initialize() returned true, or logged that the engine and
\* its systems initialized successfully, only if the initialize() call of
\* every subsystem returned true.
C38_TrueOnlyIfAllInitialized ==
    (engine.returned = "true" \/ Succeeded \in Range(engine.log))
       => \A s \in Range(InitializeOrder) : engine.results[s]

====
